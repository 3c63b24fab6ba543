--------------------------- MODULE EpochAgreement ---------------------------
(***************************************************************************)
(* What the election promises the members (spec 4.2 and 4.3): each epoch  *)
(* gets one candidate list, and every member enters the epochs one after   *)
(* the other, each with the committee of that epoch's list: its first     *)
(* Slots keys are the witnesses (in an order the member may reshuffle),   *)
(* the rest the candidate queue in list order.  The list of an epoch is   *)
(* fixed by the first member that enters it or learns it, and never       *)
(* changes.  Election is checked to implement this module.                *)
(***************************************************************************)
EXTENDS Naturals, Sequences

CONSTANTS
    Nodes,      \* the members
    Lists,      \* the candidate lists an election may produce
    Slots,      \* the number of witness slots
    FirstEpoch, \* the epoch every member is in initially
    FirstList,  \* the list of FirstEpoch
    MaxEpoch,   \* the last epoch of the bound
    NoList      \* no list fixed yet

VARIABLES
    chosen,     \* chosen[e]: the list of epoch e, or NoList
    current     \* current[n]: the epoch member n is in, with its committee

agreementVars == <<chosen, current>>

Epochs == FirstEpoch + 1 .. MaxEpoch

\* The committee of epoch e with list l, as a member holds it.
Committee(e, l) ==
    [number    |-> e,
     witnesses |-> {l[i] : i \in DOMAIN l \cap 1..Slots},
     queue     |-> [i \in 1..Len(l) - Slots |-> l[i + Slots]]]

Init ==
    /\ chosen = [e \in Epochs |-> NoList]
    /\ current = [n \in Nodes |-> Committee(FirstEpoch, FirstList)]

\* The list of epoch e is fixed: some member learns it.
Choose(e) ==
    /\ chosen[e] = NoList
    /\ \E l \in Lists : chosen' = [chosen EXCEPT ![e] = l]
    /\ UNCHANGED current

\* Member n enters its next epoch with that epoch's list, fixing the list
\* if it is the first to learn it.
Enter(n) ==
    LET e == current[n].number + 1
    IN  /\ e \in Epochs
        /\ \E l \in Lists :
             /\ chosen[e] \in {NoList, l}
             /\ chosen' = [chosen EXCEPT ![e] = l]
             /\ current' = [current EXCEPT ![n] = Committee(e, l)]

Next == (\E e \in Epochs : Choose(e)) \/ (\E n \in Nodes : Enter(n))

Spec == Init /\ [][Next]_agreementVars
=============================================================================
