----------------------------- MODULE MCInfluxDB -----------------------------
(***************************************************************************)
(* Small instances of the client: the tags are model values, the rest of   *)
(* the bounds is in the .cfg files.                                        *)
(***************************************************************************)
EXTENDS InfluxDB

CONSTANTS t1, t2

OneTag  == {t1}
TwoTags == {t1, t2}

\* batchOf(0) and batchOf(1) flush every point; 2 and 3 are shorter than,
\* and as long as, the longest vector.
BatchSizesMC == 0..3

\* One size, for the runs about liveness.
BatchOfTwo == {2}
=============================================================================
