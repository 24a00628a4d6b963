------------------------------ MODULE Delivery ------------------------------
(***************************************************************************)
(* What a writer is promised about its points, which are numbered as it    *)
(* hands them over: what is accepted is present, or was excused from being *)
(* so, and what is accepted or present stays so.  Of a point that is not   *)
(* accepted nothing is known: it may come to be present at any time.       *)
(***************************************************************************)
EXTENDS Naturals

VARIABLES
    written,      \* number of points handed over
    accepted,     \* those whose writer was told that they are accepted
    present,      \* those in the store
    excused       \* those accepted without a promise

vars == <<written, accepted, present, excused>>

Init ==
    /\ written = 0
    /\ accepted = {}
    /\ present = {}
    /\ excused = {}

Write ==
    /\ written' > written
    /\ UNCHANGED <<accepted, present, excused>>

\* The server stores points it has been handed, some of them perhaps again.
Store ==
    /\ \E points \in SUBSET (1..written) : present' = present \union points
    /\ UNCHANGED <<written, accepted, excused>>

\* Points are accepted that are present ...
Accept ==
    /\ \E points \in SUBSET present : accepted' = accepted \union points
    /\ UNCHANGED <<written, present, excused>>

\* ... or excused, which the writer could know.
Excuse ==
    /\ \E points \in SUBSET (1..written) :
          /\ accepted' = accepted \union points
          /\ excused' = excused \union points
    /\ UNCHANGED <<written, present>>

Next == Write \/ Store \/ Accept \/ Excuse

Spec == Init /\ [][Next]_vars
=============================================================================
