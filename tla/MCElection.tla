---------------------------- MODULE MCElection ----------------------------
(* Four members k1..k4 (or three of them) electing the committee of the  *)
(* next epoch.                                                             *)
EXTENDS Election

CONSTANTS k1, k2, k3, k4

MCMembers == {k1, k2, k3, k4}
KeyNum == [k \in MCMembers |-> CASE k = k1 -> 1 [] k = k2 -> 2
                                  [] k = k3 -> 3 [] k = k4 -> 4]

\* Stand-ins for sha256, injective in the key for fixed other arguments.
MCHash(w, seed, idx) == (KeyNum[w] * 7 + seed * 3 + idx * 5) % 11
MCTieHash(k, seed) == (KeyNum[k] * 3 + seed) % 7

\* A ballot profile (fill_ballot can draw any ordering, every weight being
\* positive) in which, for the tie-break seed 1, the ballots of k1, k2, k3
\* tabulate to <<k1, k2, k3, k4>> while every other set of three ballots
\* and all four tabulate to <<k1, k3, k2, k4>>.
MCBallots == [n \in MCMembers |->
    CASE n = k1 -> {<<k1, k3, k2, k4>>}
      [] n = k2 -> {<<k1, k3, k4, k2>>}
      [] n = k3 -> {<<k2, k1, k4, k3>>}
      [] n = k4 -> {<<k3, k1, k2, k4>>}]

MCFirstResult == <<k1, k2, k3, k4>>

\* A profile with equal scores: for the seed 2, five of the eleven sets of
\* three or four ballots tabulate to a list in which get_slot_winner's hash
\* settles a draw, every set of three containing k1 tabulates to a list
\* other than all four, and six sets of two ballots
\* tabulate to lists that no three ballots give.
MCBallotsTie == [n \in MCMembers |->
    CASE n = k1 -> {<<k1, k2, k3, k4>>}
      [] n = k2 -> {<<k2, k4, k1, k3>>}
      [] n = k3 -> {<<k3, k4, k2, k1>>}
      [] n = k4 -> {<<k4, k1, k3, k2>>}]

\* In every profile here each member has exactly one ballot, so the ballots
\* a member holds for an epoch are determined by their signers.  The
\* tabulation of each signer set is computed once, as a constant table, and
\* the cfgs put MCCalculateResult in place of CalculateResult: it equals
\* CalculateResult on every ballot map the model can hold.
MCCast == [n \in Nodes |-> CHOOSE b \in BallotChoices[n] : TRUE]
MCResultTable ==
    [e \in VoteEpochs |->
        [S \in SUBSET Nodes \ {{}} |-> BreakTies(<<>>, Restrict(MCCast, S), N, e)]]
MCCalculateResult(bs, n, e) == MCResultTable[e][DOMAIN bs]

\* The reference for calculate_result (spec 4.2): weights w_0 = 1/2,
\* w_(i+1) = w_i / 2 (here as integers over a common denominator 2^n, built
\* by halving), each candidate scored by its weights on all ballots, and the
\* candidates ordered by descending (score, TieHash); each cast ballot's
\* points are computed once and summed over a set of ballots.
RECURSIVE RefWeight(_, _)
RefWeight(n, i) == IF i = 0 THEN 2 ^ (n - 1) ELSE RefWeight(n, i - 1) \div 2
RefPoints(ballot, c) == RefWeight(N, CHOOSE i \in 0..N - 1 : ballot[i + 1] = c)
RECURSIVE RefSum(_, _, _)
RefSum(pts, signers, c) ==
    IF signers = {} THEN 0
    ELSE LET s == CHOOSE x \in signers : TRUE
         IN  pts[s][c] + RefSum(pts, signers \ {s}, c)
RefOrdered(r, sc, seed) ==
    \A i \in 1..N - 1 :
        \/ sc[r[i]] > sc[r[i + 1]]
        \/ sc[r[i]] = sc[r[i + 1]] /\ MCTieHash(r[i], seed) > MCTieHash(r[i + 1], seed)

\* The result each member computed (calculate_result stores it under the
\* member's own key) lists the candidates in the reference order of the
\* ballots cast by some consensus_amount or more members: break_ties (the
\* draw loop removing each winner from the score map) and get_slot_winner
\* (a draw settled by the largest hash of the epoch seed, not by dict
\* order) rank exactly by score and then hash, so members holding the same
\* ballots compute the same list, and the timer computes it from enough
\* ballots.
ResultsMatchReference ==
    \A e \in VoteEpochs :
        LET cast    == Cast(e)
            pts     == [s \in DOMAIN cast |-> [c \in Nodes |-> RefPoints(cast[s], c)]]
            enough  == {S \in SUBSET DOMAIN cast :
                            Cardinality(S) >= ConsensusAmount(NumSlots, Online)}
            tallies == {[c \in Nodes |-> RefSum(pts, S, c)] : S \in enough}
        IN  \A n \in Nodes :
                n \in DOMAIN results[n][e] =>
                    \E sc \in tallies : RefOrdered(results[n][e][n], sc, e)

\* Three members, each with one ballot (any profile: with three members
\* every member needs every ballot).
MCMembers3 == {k1, k2, k3}
MCBallots3 == [n \in MCMembers3 |->
    CASE n = k1 -> {<<k1, k2, k3>>}
      [] n = k2 -> {<<k2, k3, k1>>}
      [] n = k3 -> {<<k3, k1, k2>>}]
MCFirstResult3 == <<k1, k2, k3>>

\* Initial slot cursors: every member at the end of the first epoch (its
\* last slot done), or k1 one slot behind the others.
MCAllOver == [n \in Nodes |-> EpochLen]
MCOneBehind == [n \in Nodes |-> IF n = k1 THEN EpochLen - 1 ELSE EpochLen]

\* Rebroadcast bounds: none, or one rebroadcast_ballot call by k1.
MCNoRebroadcast == [n \in Nodes |-> 0]
MCOneRebroadcast == [n \in Nodes |-> IF n = k1 THEN 1 ELSE 0]

\* The view under which TLC compares states.  In an epoch that is over, a
\* member that has voted and may not rebroadcast behaves the same in
\* ELECTION and in IDLE: the only step that tells them apart is next_slot,
\* which there just sets IDLE (a result that becomes ready in an over epoch
\* starts the next epoch at once, so ready_result never holds it here).
SettledState(n) == IF Settled(n) THEN IDLE ELSE nstate[n]
ElectionView ==
    <<ep, [n \in Nodes |-> SettledState(n)], ballots, results, cands, ready,
      timer, inbox, rebroadcasts, lost>>
\* Later starts: the members of a vote order have voted for the next epoch,
\* in that order, and nothing has been received yet; the others have not
\* voted.  Such a state is reached from Init by those Vote steps alone.
MCVotedBy(order) == {order[i] : i \in DOMAIN order}
MCVotesFor(order, n) ==
    LET sent == SelectSeq(order, LAMBDA v : v # n)
    IN  [i \in DOMAIN sent |->
            [from |-> sent[i], msg |-> VoteMsg(FirstEpoch + 1, MCCast[sent[i]])]]
MCInitVotedBy(order) ==
    /\ ep = [n \in Nodes |-> FirstEp(n)]
    /\ nstate = [n \in Nodes |-> IF n \in MCVotedBy(order) THEN ELECTION
                                 ELSE IF IsOver(FirstEp(n)) THEN IDLE ELSE PRODUCTION]
    /\ ballots = [n \in Nodes |-> [e \in VoteEpochs |->
                    IF n \in MCVotedBy(order) /\ e = FirstEpoch + 1
                    THEN (n :> MCCast[n]) ELSE <<>>]]
    /\ results = [n \in Nodes |-> [e \in VoteEpochs |-> <<>>]]
    /\ cands = [n \in Nodes |-> [e \in VoteEpochs |-> Nil]]
    /\ ready = [n \in Nodes |-> {}]
    /\ timer = [n \in Nodes |-> Nil]
    /\ inbox = [n \in Nodes |-> MCVotesFor(order, n)]
    /\ rebroadcasts = [n \in Nodes |-> 0]
    /\ lost = 0

\* The agreement-split run: all four have voted, k4 last.
MCSpecVoted == MCInitVotedBy(<<k1, k2, k3, k4>>) /\ [][Next]_vars

\* The timer run: k2 and k3 have voted, k1 (whose timer may fire early)
\* and k4 have not.
MCSpecTimer == MCInitVotedBy(<<k2, k3>>) /\ [][Next]_vars

\* The behind run: k2 and k3 have voted, k1 (one slot behind) and k4 have
\* not.
MCSpecBehind == MCInitVotedBy(<<k2, k3>>) /\ [][Next]_vars

\* The lost-result run: k2, k3 and k4 have voted, k1 has not.
MCSpecLoss == MCInitVotedBy(<<k2, k3, k4>>) /\ [][NextLossy]_vars
=============================================================================
