-------------------------- MODULE MCConnectionPool --------------------------
(***************************************************************************)
(* Small instances of ConnectionPool for TLC.                              *)
(***************************************************************************)
EXTENDS ConnectionPool

CONSTANTS w1, w2, c1, c2

OneWorker == {w1}
TwoWorkers == {w1, w2}

OneConn == {c1}
TwoConns == {c1, c2}

IdleOnly == {"idle"}
=============================================================================
