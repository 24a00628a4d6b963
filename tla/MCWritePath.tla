----------------------------- MODULE MCWritePath -----------------------------
(***************************************************************************)
(* Small instances of the write path.                                      *)
(***************************************************************************)
EXTENDS WritePath

CONSTANTS t1

OneTag     == {t1}
BatchOfTwo == {2}

BothTransports == {"http", "datagram"}

SecondPoint == {2}

\* A redirection, a database that does not exist, a server that fails.
RefusalsMC == {302, 404, 503}
=============================================================================
