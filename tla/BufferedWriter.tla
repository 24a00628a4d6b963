--------------------------- MODULE BufferedWriter ---------------------------
(***************************************************************************)
(* What an influxdb-cxx client promises the application about the points   *)
(* it is handed, seen from outside: no batching flag, no batch size, no    *)
(* calls.  Points are numbered in the order the application writes them.   *)
(*                                                                         *)
(*   newest     the last point the writer has taken a decision on;         *)
(*   queue      points kept for a later attempt;                           *)
(*   delivered  points the transport accepted, in that order.              *)
(*                                                                         *)
(* The promise is that a point is delivered at most once and in the order  *)
(* of writing, that the queue is delivered as a whole or not at all, and   *)
(* that points go missing in two ways only: the whole queue is discarded,  *)
(* or a run of the newest points is never queued.                          *)
(***************************************************************************)
EXTENDS Integers, Sequences

VARIABLES newest, queue, delivered

vars == <<newest, queue, delivered>>

\* The k points that follow point p, in order.
Following(p, k) == [i \in 1..k |-> p + i]

Init ==
    /\ newest = 0
    /\ queue = <<>>
    /\ delivered = <<>>

\* The next point joins the queue.
Enqueue ==
    /\ queue' = Append(queue, newest + 1)
    /\ newest' = newest + 1
    /\ UNCHANGED delivered

\* The whole queue is delivered.
Deliver ==
    /\ delivered' = delivered \o queue
    /\ queue' = <<>>
    /\ UNCHANGED newest

\* A run of the newest points is delivered without having been queued;
\* possible only while nothing is queued, or they would overtake it.
DeliverDirectly ==
    /\ queue = <<>>
    /\ newest' \in Nat
    /\ newest' > newest
    /\ delivered' = delivered \o Following(newest, newest' - newest)
    /\ UNCHANGED queue

\* A run of the newest points is given up before it was queued.
Skip ==
    /\ newest' \in Nat
    /\ newest' > newest
    /\ UNCHANGED <<queue, delivered>>

\* Everything queued is thrown away.
Discard ==
    /\ queue' = <<>>
    /\ UNCHANGED <<newest, delivered>>

Next ==
    \/ Enqueue
    \/ Deliver
    \/ DeliverDirectly
    \/ Skip
    \/ Discard

Spec == Init /\ [][Next]_vars
=============================================================================
