------------------------------ MODULE Election ------------------------------
(***************************************************************************)
(* The election of the next epoch's candidate list by all members, and the *)
(* transition of each member to that epoch: DDPoANode.vote,               *)
(* rebroadcast_ballot, handle_vote, broadcast_result (also run by the      *)
(* 15-second threading.Timer), handle_vote_result, next_slot,             *)
(* finalize_epoch and initialize_epoch (src/consensus/pkg/engine/          *)
(* ddpoa_node.py), with the VotingSystem store of voting_system.py.       *)
(*                                                                         *)
(* Every member runs the same engine.  A peer message is a unary gRPC     *)
(* call whose server handler puts it on the receiver's single queue        *)
(* (Communicator.queue, consensus_messaging.py); the driver loop takes one *)
(* message per iteration from that queue.  Communicator.broadcast makes   *)
(* the calls to all connected peers and joins them before returning, so a  *)
(* broadcast is one step that appends the message to every other inbox    *)
(* (two broadcasts thus reach all receivers in the same relative order,   *)
(* which the code does not promise across senders).                       *)
(* Slot events (blocks committed,                                          *)
(* empty slots, missed-slot timeouts) are not modelled one by one here;    *)
(* NextSlot stands for any of them advancing a member's epoch cursor.      *)
(***************************************************************************)
EXTENDS Epoch, Voting, TLC

CONSTANTS
    BallotChoices,  \* BallotChoices[n]: the ballots fill_ballot may give n
    FirstEpoch,     \* the epoch all members are in initially
    FirstResult,    \* the candidate list of FirstEpoch when it is not 0
    FirstIdx,       \* FirstIdx[n]: the slot cursor of FirstEpoch member n starts at
    MaxEpoch,       \* no member votes for an epoch beyond MaxEpoch
    MaxRebroadcast, \* MaxRebroadcast[n]: bound on rebroadcast_ballot calls of n
    TimerNodes,     \* members whose 15-second timer may run out before
                    \* every ballot has reached them
    MaxLoss         \* bound on the VOTE_RESULT sends that fail

Nodes == Members
N == Cardinality(Nodes)
VoteEpochs == FirstEpoch + 1 .. MaxEpoch

\* DDPoANode.State (the catch-up states belong to the engine model).
IDLE == "IDLE"
ELECTION == "ELECTION"
PRODUCTION == "PRODUCTION"

VARIABLES
    ep,         \* ep[n]: the Epoch object of member n
    nstate,     \* nstate[n]: DDPoANode.state
    ballots,    \* ballots[n][e]: VotingSystem.ballots[e], signer -> ballot
    results,    \* results[n][e]: VotingSystem.results[e], peer -> result
    cands,      \* cands[n][e]: VotingSystem.candidates[e], or Nil
    ready,      \* ready[n]: the epochs in DDPoANode.ready_result
    timer,      \* timer[n]: the epoch of a pending broadcast_timer, or Nil
    inbox,      \* inbox[n]: the Communicator.queue of n, [from, msg] pairs
    rebroadcasts,\* rebroadcasts[n]: rebroadcast_ballot calls so far
    lost        \* the VOTE_RESULT sends that failed so far

vars == <<ep, nstate, ballots, results, cands, ready, timer, inbox, rebroadcasts, lost>>

\* online_peers: the connected peers plus the member itself.  All members
\* stay connected in this module.
Online == N

NextEpoch(n) == ep[n].number + 1

\* A member that has started MaxEpoch drops every later message (none is
\* for its next epoch, and it votes no more), so messages are not queued
\* to it and its queue is emptied when it gets there.
Live(p) == ep[p].number < MaxEpoch

\* Communicator.broadcast over inboxes q: the message is queued to every
\* other member (that is Live, see below).
Broadcast(q, from, m) ==
    [p \in DOMAIN q |-> IF p # from /\ Live(p)
                        THEN Append(q[p], [from |-> from, msg |-> m])
                        ELSE q[p]]

VoteMsg(e, b) == [type |-> "VOTE", epoch |-> e, val |-> b]
ResultMsg(e, r) == [type |-> "VOTE_RESULT", epoch |-> e, val |-> r]

\* Partial function update, as dict[key] = value.
Put(f, k, v) == (k :> v) @@ f

\* The first epoch of member n; a member whose epoch is over with no result
\* ready has run finalize_epoch and is IDLE, as is a member before epoch 1.
FirstEp(n) ==
    IF FirstEpoch = 0 THEN NewEpoch(0, NumSlots)
    ELSE [SetCandidatesAndWitnesses(NewEpoch(FirstEpoch, NumSlots), FirstResult)
            EXCEPT !.idx = FirstIdx[n]]

Init ==
    /\ ep = [n \in Nodes |-> FirstEp(n)]
    /\ nstate = [n \in Nodes |-> IF IsOver(FirstEp(n)) THEN IDLE ELSE PRODUCTION]
    /\ ballots = [n \in Nodes |-> [e \in VoteEpochs |-> <<>>]]
    /\ results = [n \in Nodes |-> [e \in VoteEpochs |-> <<>>]]
    /\ cands = [n \in Nodes |-> [e \in VoteEpochs |-> Nil]]
    /\ ready = [n \in Nodes |-> {}]
    /\ timer = [n \in Nodes |-> Nil]
    /\ inbox = [n \in Nodes |-> <<>>]
    /\ rebroadcasts = [n \in Nodes |-> 0]
    /\ lost = 0

\* initialize_epoch(e): a fresh Epoch filled from candidates[e], state
\* PRODUCTION; q is the queues after the step.  remove_old_epoch_data only
\* acts once results are held for ten epochs, which VoteEpochs never reaches.
InitializeEpoch(n, e, list, q) ==
    /\ ep' = [ep EXCEPT ![n] =
                SetCandidatesAndWitnesses(NewEpoch(e, NumSlots), list)]
    /\ nstate' = [nstate EXCEPT ![n] = PRODUCTION]
    /\ inbox' = IF e = MaxEpoch THEN [q EXCEPT ![n] = <<>>] ELSE q

\* should_vote: near the end of the epoch (or before the first one), not
\* yet voted for the next epoch, and more members online than slots.
ShouldVote(n) ==
    /\ \/ SlotsRemaining(ep[n]) <= VOTING_SLOTS
       \/ IsOver(ep[n])
       \/ ep[n].number = 0
    /\ n \notin DOMAIN ballots[n][NextEpoch(n)]
    /\ Online > NumSlots

\* vote(): fill a ballot, store it, enter ELECTION and broadcast it.
Vote(n) ==
    /\ NextEpoch(n) \in VoteEpochs
    /\ ShouldVote(n)
    /\ \E b \in BallotChoices[n] :
         /\ ballots' = [ballots EXCEPT ![n][NextEpoch(n)] = Put(@, n, b)]
         /\ inbox' = Broadcast(inbox, n, VoteMsg(NextEpoch(n), b))
    /\ nstate' = [nstate EXCEPT ![n] = ELECTION]
    /\ UNCHANGED <<ep, results, cands, ready, timer, rebroadcasts, lost>>

\* rebroadcast_ballot(): in ELECTION (and when should_vote is false, which
\* holds once the member has voted) the stored ballot is sent again.
RebroadcastBallot(n) ==
    /\ nstate[n] = ELECTION
    /\ ~ShouldVote(n)
    /\ rebroadcasts[n] < MaxRebroadcast[n]
    /\ n \in DOMAIN ballots[n][NextEpoch(n)]
    /\ inbox' = Broadcast(inbox, n, VoteMsg(NextEpoch(n), ballots[n][NextEpoch(n)][n]))
    /\ rebroadcasts' = [rebroadcasts EXCEPT ![n] = @ + 1]
    /\ UNCHANGED <<ep, nstate, ballots, results, cands, ready, timer, lost>>

\* broadcast_result(e) over inboxes q: calculate_result stores the
\* member's own result and the result is broadcast.
BroadcastResult(n, e, bs, q) ==
    \E r \in {CalculateResult(bs, N, e)} :
        /\ results' = [results EXCEPT ![n][e] = Put(@, n, r)]
        /\ inbox' = Broadcast(q, n, ResultMsg(e, r))

\* Communicator.recv: the next message of n's queue, and the queues
\* without it.
Sender(n) == Head(inbox[n]).from
Msg(n) == Head(inbox[n]).msg
Dequeue(q, n) == [q EXCEPT ![n] = Tail(@)]

\* Seeded fault: the pending timer is cancelled before the check for an
\* already stored ballot, so that a rebroadcast ballot cancels it.
ReceiveVoteCancelFirst(n) ==
    /\ inbox[n] # <<>>
    /\ Msg(n).type = "VOTE"
    /\ LET m == Sender(n)
           e == Msg(n).epoch
           bs == Put(ballots[n][e], m, Msg(n).val)
       IN  IF e # NextEpoch(n) \/ m \in DOMAIN ballots[n][e]
           THEN /\ inbox' = Dequeue(inbox, n)
                /\ timer' = IF e = NextEpoch(n) THEN [timer EXCEPT ![n] = Nil] ELSE timer
                /\ UNCHANGED <<ep, nstate, ballots, results, cands, ready>>
           ELSE /\ ballots' = [ballots EXCEPT ![n][e] = bs]
                /\ IF HasAllBallots(bs, NumSlots, Online)
                   THEN /\ BroadcastResult(n, e, bs, Dequeue(inbox, n))
                        /\ timer' = [timer EXCEPT ![n] = Nil]
                   ELSE /\ inbox' = Dequeue(inbox, n)
                        /\ results' = results
                        /\ timer' = [timer EXCEPT ![n] =
                              IF HasEnoughBallots(bs, NumSlots, Online)
                              THEN e ELSE Nil]
                /\ UNCHANGED <<ep, nstate, cands, ready>>
    /\ UNCHANGED <<rebroadcasts, lost>>

\* handle_vote: a ballot for the next epoch from a member that has not
\* voted yet is stored; a pending timer is cancelled; with ballots from all
\* online members the result is broadcast at once, with enough of them a
\* new 15-second timer is armed.
ReceiveVote(n) ==
    /\ inbox[n] # <<>>
    /\ Msg(n).type = "VOTE"
    /\ LET m == Sender(n)
           e == Msg(n).epoch
           bs == Put(ballots[n][e], m, Msg(n).val)
       IN  IF e # NextEpoch(n) \/ m \in DOMAIN ballots[n][e]
           THEN /\ inbox' = Dequeue(inbox, n)
                /\ UNCHANGED <<ep, nstate, ballots, results, cands, ready, timer>>
           ELSE /\ ballots' = [ballots EXCEPT ![n][e] = bs]
                /\ IF HasAllBallots(bs, NumSlots, Online)
                   THEN /\ BroadcastResult(n, e, bs, Dequeue(inbox, n))
                        /\ timer' = [timer EXCEPT ![n] = Nil]
                   ELSE /\ inbox' = Dequeue(inbox, n)
                        /\ results' = results
                        /\ timer' = [timer EXCEPT ![n] =
                              IF HasEnoughBallots(bs, NumSlots, Online)
                              THEN e ELSE Nil]
                /\ UNCHANGED <<ep, nstate, cands, ready>>
    /\ UNCHANGED <<rebroadcasts, lost>>

\* The broadcast_timer fires: broadcast_result(e) runs on the timer thread
\* over the ballots stored at that moment.  The timer of a member outside
\* TimerNodes runs out only once every ballot has reached it.
TimerFires(n) ==
    /\ timer[n] # Nil
    /\ n \in TimerNodes \/ DOMAIN ballots[n][timer[n]] = Nodes
    /\ BroadcastResult(n, timer[n], ballots[n][timer[n]], inbox)
    /\ timer' = [timer EXCEPT ![n] = Nil]
    /\ UNCHANGED <<ep, nstate, ballots, cands, ready, rebroadcasts, lost>>

\* Seeded fault: set_candidates stores the list of the message that
\* completed the count instead of the most frequent one.
ReceiveResultOwnList(n) ==
    /\ inbox[n] # <<>>
    /\ Msg(n).type = "VOTE_RESULT"
    /\ LET e == Msg(n).epoch
           rs == Put(results[n][e], Sender(n), Msg(n).val)
           count == ConsensusCount(rs)
           trigger == \/ count >= ConsensusAmount(NumSlots, Online) /\ ep[n].number # 0
                      \/ count = Online /\ ep[n].number = 0
           r == Msg(n).val
       IN  IF e # NextEpoch(n)
           THEN /\ inbox' = Dequeue(inbox, n)
                /\ UNCHANGED <<ep, nstate, results, cands, ready>>
           ELSE /\ results' = [results EXCEPT ![n][e] = rs]
                /\ IF trigger
                   THEN /\ ready' = [ready EXCEPT ![n] = @ \cup {e}]
                        /\ cands' = [cands EXCEPT ![n][e] = r]
                        /\ IF IsOver(ep[n])
                           THEN InitializeEpoch(n, e, r, Dequeue(inbox, n))
                           ELSE /\ inbox' = Dequeue(inbox, n)
                                /\ UNCHANGED <<ep, nstate>>
                   ELSE /\ inbox' = Dequeue(inbox, n)
                        /\ UNCHANGED <<ep, nstate, cands, ready>>
    /\ UNCHANGED <<ballots, timer, rebroadcasts, lost>>

\* handle_vote_result: a result for the next epoch is stored; when the most
\* frequent stored result reaches consensus_amount (or, before the first
\* epoch, is held by every online member) the epoch is marked ready with
\* that result as its candidate list, and started at once if the current
\* epoch is over.
ReceiveResult(n) ==
    /\ inbox[n] # <<>>
    /\ Msg(n).type = "VOTE_RESULT"
    /\ LET e == Msg(n).epoch
           rs == Put(results[n][e], Sender(n), Msg(n).val)
           count == ConsensusCount(rs)
           trigger == \/ count >= ConsensusAmount(NumSlots, Online) /\ ep[n].number # 0
                      \/ count = Online /\ ep[n].number = 0
       IN  IF e # NextEpoch(n)
           THEN /\ inbox' = Dequeue(inbox, n)
                /\ UNCHANGED <<ep, nstate, results, cands, ready>>
           ELSE /\ results' = [results EXCEPT ![n][e] = rs]
                /\ IF trigger
                   THEN \E r \in ConsensusResults(rs) :
                          /\ ready' = [ready EXCEPT ![n] = @ \cup {e}]
                          /\ cands' = [cands EXCEPT ![n][e] = r]
                          /\ IF IsOver(ep[n])
                             THEN InitializeEpoch(n, e, r, Dequeue(inbox, n))
                             ELSE /\ inbox' = Dequeue(inbox, n)
                                  /\ UNCHANGED <<ep, nstate>>
                   ELSE /\ inbox' = Dequeue(inbox, n)
                        /\ UNCHANGED <<ep, nstate, cands, ready>>
    /\ UNCHANGED <<ballots, timer, rebroadcasts, lost>>

\* Seeded fault: next_slot ends the epoch without looking at ready_result,
\* so that a result completed before the epoch ended never starts it.
NextSlotNoReady(n) ==
    /\ NextEpoch(n) <= MaxEpoch
    /\ nstate[n] # IDLE
    /\ ep[n].witnesses # <<>>
    /\ \E s \in Seeds :
         LET e1 == CapIdx(IncrementWitness(ep[n], s))
         IN  /\ ep' = [ep EXCEPT ![n] = e1]
             /\ IF ~IsOver(e1)
                THEN UNCHANGED <<nstate, ready>>
                ELSE /\ ready' = [ready EXCEPT ![n] = @ \ {e1.number - 2}]
                     /\ nstate' = [nstate EXCEPT ![n] = IDLE]
    /\ UNCHANGED <<inbox, ballots, results, cands, timer, rebroadcasts, lost>>

\* next_slot: increment_witness; when the epoch is then over,
\* finalize_epoch (state IDLE, ready_result for number - 2 dropped) and,
\* if the next epoch is ready, initialize_epoch.  Slot events happen while
\* the member produces (PRODUCTION or ELECTION) in an epoch with witnesses;
\* slots of MaxEpoch itself lie beyond the bound of the model.
NextSlot(n) ==
    /\ NextEpoch(n) <= MaxEpoch
    /\ nstate[n] # IDLE
    /\ ep[n].witnesses # <<>>
    /\ \E s \in Seeds :
         LET e1 == CapIdx(IncrementWitness(ep[n], s))
             rdy == ready[n] \ {e1.number - 2}
         IN  IF ~IsOver(e1)
             THEN /\ ep' = [ep EXCEPT ![n] = e1]
                  /\ UNCHANGED <<nstate, ready, inbox>>
             ELSE /\ ready' = [ready EXCEPT ![n] = rdy]
                  /\ IF e1.number + 1 \in rdy
                     THEN InitializeEpoch(n, e1.number + 1, cands[n][e1.number + 1], inbox)
                     ELSE /\ ep' = [ep EXCEPT ![n] = e1]
                          /\ nstate' = [nstate EXCEPT ![n] = IDLE]
                          /\ UNCHANGED inbox
    /\ UNCHANGED <<ballots, results, cands, timer, rebroadcasts, lost>>

\* Peer.send of a VOTE_RESULT fails (the peer is unreachable for the
\* moment): consensus_messaging.py logs the error and goes on, and the
\* result is never sent again.  Dropping a queued result from n's queue is
\* the same as the send to n failing, since each queue keeps the order of
\* the sends to it.  Ballots are left reliable: a lost ballot is sent again
\* by rebroadcast_ballot.
LoseResult(n) ==
    /\ lost < MaxLoss
    /\ \E i \in DOMAIN inbox[n] :
         /\ inbox[n][i].msg.type = "VOTE_RESULT"
         /\ inbox' = [inbox EXCEPT ![n] = RemoveAt(@, i)]
    /\ lost' = lost + 1
    /\ UNCHANGED <<ep, nstate, ballots, results, cands, ready, timer, rebroadcasts>>

\* The bound is reached: every member is in MaxEpoch and every queue is
\* drained (the engines go on producing blocks, which is not modelled).
Terminated ==
    /\ \A n \in Nodes : ep[n].number = MaxEpoch /\ inbox[n] = <<>> /\ timer[n] = Nil
    /\ UNCHANGED vars

Next ==
    \/ Terminated
    \/ \E n \in Nodes :
           \/ Vote(n)
           \/ RebroadcastBallot(n)
           \/ TimerFires(n)
           \/ NextSlot(n)
           \/ ReceiveVote(n)
           \/ ReceiveResult(n)

Spec == Init /\ [][Next]_vars

\* The fault model: the steps of Next, and besides up to MaxLoss failed
\* sends of a VOTE_RESULT.
NextLossy == Next \/ \E n \in Nodes : LoseResult(n)

-----------------------------------------------------------------------------
Ballots == UNION {BallotChoices[n] : n \in Nodes}
ResultValues == SetToSeqs(Nodes)
Msgs == [type : {"VOTE"}, epoch : VoteEpochs, val : Ballots]
        \cup [type : {"VOTE_RESULT"}, epoch : VoteEpochs, val : ResultValues]

\* Type invariant.
TypeOK ==
    /\ \A n \in Nodes :
         /\ ep[n].number \in FirstEpoch..MaxEpoch
         /\ ep[n].idx \in 0..EpochLen
         /\ ep[n].num_slots = NumSlots
         /\ nstate[n] \in {IDLE, ELECTION, PRODUCTION}
         /\ ready[n] \subseteq VoteEpochs
         /\ timer[n] \in VoteEpochs \cup {Nil}
         /\ rebroadcasts[n] \in 0..MaxRebroadcast[n]
         /\ \A e \in VoteEpochs :
              /\ DOMAIN ballots[n][e] \subseteq Nodes
              /\ \A s \in DOMAIN ballots[n][e] : ballots[n][e][s] \in Ballots
              /\ DOMAIN results[n][e] \subseteq Nodes
              /\ \A s \in DOMAIN results[n][e] : results[n][e][s] \in ResultValues
              /\ cands[n][e] \in ResultValues \cup {Nil}
    /\ \A n \in Nodes : inbox[n] \in Seq([from : Nodes, msg : Msgs])

\* The ballot member s cast for epoch e, as s stored it.
Cast(e) == [s \in {x \in Nodes : x \in DOMAIN ballots[x][e]} |-> ballots[s][e][s]]

\* Agreement: two members that have both started epoch e started it with
\* the same candidate list (candidates[e] is no longer written once the
\* member is in epoch e, since handle_vote_result drops results for other
\* epochs than the next one).
CandidateAgreement ==
    \A e \in VoteEpochs : \A n, m \in Nodes :
        ep[n].number >= e /\ ep[m].number >= e => cands[n][e] = cands[m][e]

\* A member holding a ballot from every online member (its own included)
\* for an epoch has computed its result for it, or has a 15-second timer
\* pending that will: handle_vote broadcasts at once when the ballots are
\* complete and arms the timer when they are enough, but vote() stores the
\* member's own ballot without either check.
AllBallotsTabulated ==
    \A n \in Nodes : \A e \in VoteEpochs :
        DOMAIN ballots[n][e] = Nodes => n \in DOMAIN results[n][e] \/ timer[n] = e

\* Before the first epoch, a member holding the same result from every
\* online member (itself included) has started epoch 1: handle_vote_result
\* starts it as soon as the count reaches online_peers, but the member's own
\* result is stored by calculate_result, which checks nothing.
NoUnanimousResultInEpochZero ==
    \A n \in Nodes :
        ep[n].number = 0 /\ 1 \in VoteEpochs => ConsensusCount(results[n][1]) < Online


\* Member n is settled: its epoch is over, it has voted for the next one
\* and may not rebroadcast.  It then waits for results alone; in ELECTION
\* its only other step is next_slot, which just sets IDLE (a result that
\* becomes ready in an over epoch starts the next epoch at once).
Settled(n) ==
    /\ IsOver(ep[n])
    /\ n \in DOMAIN ballots[n][NextEpoch(n)]
    /\ rebroadcasts[n] = MaxRebroadcast[n]

\* Member n can still make progress in the election: a message is queued
\* to it (ReceiveVote, ReceiveResult), it should vote (Vote), its timer
\* can run out (TimerFires) or it can end a slot (NextSlot) other than the
\* settled one that only sets IDLE.
CanStep(n) ==
    \/ inbox[n] # <<>>
    \/ NextEpoch(n) \in VoteEpochs /\ ShouldVote(n)
    \/ timer[n] # Nil /\ (n \in TimerNodes \/ DOMAIN ballots[n][timer[n]] = Nodes)
    \/ /\ NextEpoch(n) <= MaxEpoch /\ nstate[n] # IDLE /\ ep[n].witnesses # <<>>
       /\ ~Settled(n)

\* The election never stalls: while some member has not started the last
\* epoch of the bound, some member can still take a step (take a message
\* off its queue, vote, fire its timer or end a slot).  No step sequence
\* of the model repeats, so under the driver loop's fairness this is
\* "every member eventually starts the next epoch".  Spec 7 says the design
\* tolerates the errors of an unreachable peer (Peer.send drops the message
\* and returns), and with four members consensus_amount is three, so one
\* missing VOTE_RESULT should not matter; but handle_vote_result is the
\* only place that checks the count, and the member's own result, stored
\* by calculate_result, never triggers it.
ElectionNeverStalls ==
    (\E n \in Nodes : ep[n].number < MaxEpoch) => \E n \in Nodes : CanStep(n)


\* The refinement mapping to EpochAgreement.  The list of epoch e is the
\* candidates[e] some member has stored (set_candidates, when its results
\* reach the threshold); a member's committee is its Epoch's witnesses and
\* candidate queue.
CandidateLists == {l \in [1..N -> Nodes] : Range(l) = Nodes}
ChosenList(e) ==
    IF \E n \in Nodes : cands[n][e] # Nil
    THEN cands[CHOOSE n \in Nodes : cands[n][e] # Nil][e]
    ELSE Nil
Agreement == INSTANCE EpochAgreement
    WITH Lists <- CandidateLists, Slots <- NumSlots, FirstList <- FirstResult,
         NoList <- Nil,
         chosen <- [e \in VoteEpochs |-> ChosenList(e)],
         current <- [n \in Nodes |->
                       [number    |-> ep[n].number,
                        witnesses |-> Range(ep[n].witnesses),
                        queue     |-> ep[n].candidates]]

\* The election implements EpochAgreement: every member that stores a
\* candidate list for an epoch (set_candidates in handle_vote_result)
\* stores the same one, never replaces it by another, and initialize_epoch
\* (from handle_vote_result or next_slot) enters exactly the next epoch
\* with the committee of that list.  Finding 3 shows that early timers
\* break it when every member's timer may fire early, so it is checked
\* with only k1's timer able to fire before the ballots are in.
\* This is Agreement!Spec, with the stuttering step written first so that
\* TLC tries it before it enumerates the lists of Agreement!Next.
ImplementsEpochAgreement ==
    /\ Agreement!Init
    /\ [][UNCHANGED Agreement!agreementVars \/ Agreement!Next]_vars

=============================================================================
