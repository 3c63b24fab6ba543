------------------------------- MODULE Voting -------------------------------
(***************************************************************************)
(* The pure parts of VotingSystem (src/consensus/pkg/engine/              *)
(* voting_system.py): the consensus threshold, the counting of peer        *)
(* results, and the tabulation of ballots with break_ties and              *)
(* get_slot_winner.                                                         *)
(*                                                                         *)
(* A ballot is a sequence of member keys (highest preference first).  The  *)
(* ballots of an epoch are a function from signer to ballot, as the dict  *)
(* self.ballots[epoch].  A result is a sequence of member keys.           *)
(*                                                                         *)
(* Scores are kept as integers: the Python weights 0.5, 0.25, ... are      *)
(* exact binary fractions, and multiplying all of them by 2^n (n the       *)
(* number of candidates) gives the integers 2^(n-1), ..., 1 with the same  *)
(* sums, comparisons and ties.                                             *)
(***************************************************************************)
EXTENDS Naturals, Sequences, FiniteSets, Functions

CONSTANT TieHash(_, _)   \* concat_and_hash(key, seed) of get_slot_winner

\* consensus_amount(online_peers).
ConsensusAmount(numSlots, online) ==
    LET twoThirds == 1 + ((online * 2) \div 3)
    IN  IF numSlots > twoThirds THEN numSlots ELSE twoThirds

\* Seeded fault: the threshold one ballot short.
HasEnoughBallotsOneShort(ballots, numSlots, online) ==
    Cardinality(DOMAIN ballots) >= ConsensusAmount(numSlots, online) - 1

\* has_enough_ballots and has_all_ballots over the ballots of one epoch.
HasEnoughBallots(ballots, numSlots, online) ==
    Cardinality(DOMAIN ballots) >= ConsensusAmount(numSlots, online)
HasAllBallots(ballots, numSlots, online) ==
    /\ online >= ConsensusAmount(numSlots, online)
    /\ Cardinality(DOMAIN ballots) >= online

\* The number of peers whose stored result is r.
ResultCount(results, r) == Cardinality({p \in DOMAIN results : results[p] = r})

\* get_consensus_result: the stored result values with the highest count.
\* Python's max() returns the first of them in dict order; that order is
\* left open here, so a caller picks any of the returned values.
ConsensusResults(results) ==
    {r \in Range(results) :
        \A q \in Range(results) : ResultCount(results, q) <= ResultCount(results, r)}
ConsensusCount(results) ==
    IF DOMAIN results = {} THEN 0
    ELSE ResultCount(results, CHOOSE r \in ConsensusResults(results) : TRUE)

\* weights[i] of break_ties for the (1-based) ballot position p, scaled by
\* 2^n: weights[0] = 0.5 becomes 2^(n-1).
Weight(n, p) == 2 ^ (n - p)

\* The position of c in ballot b (every ballot is an ordering of members).
PosIn(b, c) == CHOOSE p \in DOMAIN b : b[p] = c

\* The score loop of break_ties: every candidate on a ballot that is not
\* yet in the result gets the weight of its position on every ballot.
Scores(result, ballots, n) ==
    LET cands == UNION {Range(ballots[s]) : s \in DOMAIN ballots} \ Range(result)
    IN  [c \in cands |->
           SumFunction([s \in DOMAIN ballots |-> Weight(n, PosIn(ballots[s], c))])]

\* Seeded fault: the draw with the smallest hash wins.
GetSlotWinnerMin(draws, seed) ==
    IF Cardinality(draws) = 1 THEN CHOOSE c \in draws : TRUE
    ELSE CHOOSE c \in draws : \A d \in draws : TieHash(c, seed) <= TieHash(d, seed)

\* get_slot_winner: the only draw, or the one with the largest hash.
GetSlotWinner(draws, seed) ==
    IF Cardinality(draws) = 1 THEN CHOOSE c \in draws : TRUE
    ELSE CHOOSE c \in draws : \A d \in draws : TieHash(d, seed) <= TieHash(c, seed)

\* The candidates with the maximal score among those still in the score map;
\* scores.pop(winner) removes exactly the winners appended to the result.
Draws(result, scores) ==
    LET left == DOMAIN scores \ Range(result)
    IN  {c \in left : \A d \in left : scores[d] <= scores[c]}

\* The draw loop of break_ties: append the winner among the candidates
\* with the maximal score, until the result has n keys.
RECURSIVE DrawLoop(_, _, _, _)
DrawLoop(result, scores, n, seed) ==
    IF Len(result) >= n THEN result
    ELSE DrawLoop(Append(result, GetSlotWinner(Draws(result, scores), seed)),
                  scores, n, seed)

\* break_ties(result, ballots, num_candidates, seed).
BreakTies(result, ballots, n, seed) ==
    DrawLoop(result, Scores(result, ballots, n), n, seed)

\* calculate_result(epoch): the Scottish STV count of the stvpoll library
\* (not part of this repository) is taken to elect nobody, so that the whole
\* result comes from break_ties seeded with the epoch number.  What the
\* models rely on is what holds of the library too: the result is a
\* deterministic function of the stored ballots, and different ballot sets
\* may give different results.
CalculateResult(ballots, n, epoch) == BreakTies(<<>>, ballots, n, epoch)
=============================================================================
