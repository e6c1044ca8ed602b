------------------------------ MODULE Delivery ------------------------------
(***************************************************************************)
(* What a node promises about the fragments it broadcasts, whatever hops,  *)
(* threads and timers lie between: copies of a fragment leave one after    *)
(* the other, there are at most MaxCopies of them, and a peer is given up  *)
(* only when all of them have left.                                        *)
(***************************************************************************)
EXTENDS Naturals

CONSTANTS
    Peers,          \* the peers of the node
    Fragments,      \* the fragments it broadcasts
    MaxCopies       \* the first transmission and the retransmissions

VARIABLES
    copies,         \* copies made so far, per peer and fragment
    phase,          \* where the last copy is: "idle" (none yet), "queued",
                    \* "out", or "closed" (nothing more is made)
    answered,       \* <<peer, fragment>> acknowledged
    givenUp         \* <<peer, fragment>> abandoned

vars == <<copies, phase, answered, givenUp>>

Init ==
    /\ copies = [p \in Peers |-> [m \in Fragments |-> 0]]
    /\ phase = [p \in Peers |-> [m \in Fragments |-> "idle"]]
    /\ answered = {} /\ givenUp = {}

MoveTo(P, ph) ==
    phase' = [p \in Peers |-> [m \in Fragments |->
                IF <<p, m>> \in P THEN ph ELSE phase[p][m]]]

\* A copy is made when the one before has left.
Transmit(p, m) ==
    /\ phase[p][m] \in {"idle", "out"}
    /\ copies[p][m] < MaxCopies
    /\ copies' = [copies EXCEPT ![p][m] = @ + 1]
    /\ MoveTo({<<p, m>>}, "queued")
    /\ UNCHANGED <<answered, givenUp>>

Depart(p, m) ==
    /\ phase[p][m] = "queued"
    /\ MoveTo({<<p, m>>}, "out")
    /\ UNCHANGED <<copies, answered, givenUp>>

\* The last copy of each of P is dropped before it left, or was acknowledged
\* and is forgotten.
Close(P) ==
    /\ \A pm \in P : \/ phase[pm[1]][pm[2]] = "queued"
                     \/ phase[pm[1]][pm[2]] = "out" /\ pm \in answered
    /\ MoveTo(P, "closed")
    /\ UNCHANGED <<copies, answered, givenUp>>

\* An acknowledgement needs a copy that has left.
Acknowledge(p, m) ==
    /\ copies[p][m] > 1 \/ phase[p][m] = "out"
    /\ answered' = answered \cup {<<p, m>>}
    /\ UNCHANGED <<copies, phase, givenUp>>

Abandon(p, m) ==
    /\ copies[p][m] = MaxCopies /\ phase[p][m] = "out"
    /\ givenUp' = givenUp \cup {<<p, m>>}
    /\ UNCHANGED <<copies, phase, answered>>

Next ==
    \/ \E p \in Peers, m \in Fragments :
         Transmit(p, m) \/ Depart(p, m) \/ Acknowledge(p, m) \/ Abandon(p, m)
    \/ \E P \in SUBSET (Peers \X Fragments) : Close(P)

Spec == Init /\ [][Next]_vars
=============================================================================
