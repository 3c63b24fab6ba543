------------------------------- MODULE Epoch -------------------------------
(***************************************************************************)
(* The Epoch object of src/consensus/pkg/engine/epoch.py.                  *)
(*                                                                         *)
(* An epoch is a record                                                    *)
(*   [number, idx, witnesses, candidates, num_slots]                       *)
(* where idx is current_witness_idx, witnesses is the ordered witness list *)
(* and candidates is the FIFO candidate queue (a sequence, head = front).  *)
(* The operators below are the methods of the class, so that the node and  *)
(* engine modules can keep one epoch record per node.  EpochObject is the  *)
(* specification of one epoch object driven by its mutating methods.       *)
(***************************************************************************)
EXTENDS Naturals, Sequences, SequencesExt, FiniteSets

CONSTANTS
    Members,        \* the member keys (sawtooth.consensus.ddpoa.members)
    NumSlots,       \* committee size (sawtooth.consensus.ddpoa.slots)
    Hash(_, _, _),  \* concat_and_hash(w, seed, idx), as a number
    Seeds,          \* pre-committed block ids used as reshuffle seeds
    Nil             \* Python None

ASSUME NumSlots \in Nat \ {0}

\* config.py: ROUNDS_PER_EPOCH and VOTING_SLOTS.
ROUNDS_PER_EPOCH == 3
VOTING_SLOTS == 5

\* The first k elements of s, as the Python slice s[:k].
Take(s, k) == SubSeq(s, 1, IF k < Len(s) THEN k ELSE Len(s))

\* The elements of s after the first k, as the Python slice s[k:].
Drop(s, k) == SubSeq(s, k + 1, Len(s))

\* Seeded fault: __init__ taking the committee size from config.py's
\* VOTING_SLOTS instead of its slots argument.
NewEpochFixedSlots(number, slots) ==
    [number |-> number, idx |-> 0, witnesses |-> <<>>,
     candidates |-> <<>>, num_slots |-> VOTING_SLOTS]

\* Epoch.__init__(number, slots).
NewEpoch(number, slots) ==
    [number |-> number, idx |-> 0, witnesses |-> <<>>,
     candidates |-> <<>>, num_slots |-> slots]

\* set_candidates_and_witnesses: the first num_slots keys become the
\* witnesses, the rest are put on the candidate queue in order.
SetCandidatesAndWitnesses(e, list) ==
    [e EXCEPT !.witnesses = Take(list, e.num_slots),
              !.candidates = @ \o Drop(list, e.num_slots)]

\* reorder_witnesslist: sort the witnesses ascending by
\* concat_and_hash(w, seed, current_witness_idx).
ReorderWitnesslist(e, seed) ==
    [e EXCEPT !.witnesses =
        SortSeq(@, LAMBDA a, b : Hash(a, seed, e.idx) < Hash(b, seed, e.idx))]

\* is_over, is_last_round and slots_remaining_in_epoch.
IsOver(e) == e.idx >= Len(e.witnesses) * ROUNDS_PER_EPOCH
IsLastRound(e) == e.idx >= Len(e.witnesses) * (ROUNDS_PER_EPOCH - 1)
SlotsRemaining(e) == Len(e.witnesses) * ROUNDS_PER_EPOCH - e.idx

\* is_initialized: false only while idx = 0 and there are no witnesses.
IsInitialized(e) == ~(e.idx = 0 /\ e.witnesses = <<>>)

\* increment_witness: the cursor is incremented first; with an empty
\* witness list the modulo raises ZeroDivisionError after that increment
\* (the caller sees IncrementFails); otherwise the list is reshuffled when
\* the cursor reaches a round boundary of an epoch that is not over.
IncrementFails(e) == e.witnesses = <<>>
IncrementWitness(e, seed) ==
    LET inc == [e EXCEPT !.idx = @ + 1]
    IN  IF /\ ~IncrementFails(e)
           /\ inc.idx % Len(inc.witnesses) = 0
           /\ ~IsOver(inc)
        THEN ReorderWitnesslist(inc, seed)
        ELSE inc

\* is_witness and the position of a key in the witness list.
IsWitness(e, k) == \E i \in 1..Len(e.witnesses) : e.witnesses[i] = k
Position(e, k) == CHOOSE i \in 1..Len(e.witnesses) : e.witnesses[i] = k

\* downgrade_witness: a no-op for a non-witness; otherwise the front
\* candidate takes the witness's place and the witness goes to the back of
\* the queue.  Queue.get() blocks forever on an empty queue, so a caller
\* may only apply this when DowngradeBlocks is false.
DowngradeBlocks(e, k) == IsWitness(e, k) /\ e.candidates = <<>>

\* Seeded fault: the front candidate is read (queue[0]) but not taken off
\* the queue.
DowngradeWitnessPeek(e, k) ==
    IF ~IsWitness(e, k) THEN e
    ELSE [e EXCEPT !.witnesses[Position(e, k)] = Head(e.candidates),
                   !.candidates = Append(@, k)]

DowngradeWitness(e, k) ==
    IF ~IsWitness(e, k) THEN e
    ELSE [e EXCEPT !.witnesses[Position(e, k)] = Head(e.candidates),
                   !.candidates = Append(Tail(@), k)]

\* current_witness and next_witness (None without witnesses).
CurrentWitness(e) ==
    IF e.witnesses = <<>> THEN Nil
    ELSE e.witnesses[(e.idx % Len(e.witnesses)) + 1]
NextWitness(e) ==
    IF e.witnesses = <<>> THEN Nil
    ELSE e.witnesses[((e.idx + 1) % Len(e.witnesses)) + 1]

\* The code keeps incrementing the cursor after the epoch is over; models
\* keep it at the length of a filled epoch there, since no predicate on it
\* (is_over, is_last_round, slots_remaining <= VOTING_SLOTS) and no
\* reshuffle distinguishes larger values.
EpochLen == NumSlots * ROUNDS_PER_EPOCH
CapIdx(e) == [e EXCEPT !.idx = IF @ > EpochLen THEN EpochLen ELSE @]

\* full_candidate_list: witnesses followed by the queued candidates.
FullCandidateList(e) == e.witnesses \o e.candidates

=============================================================================
